---- MODULE Spec2Model ----
(***************************************************************************)
(* A model of the GTG core: the task store (GTG/core/tasks2.py), the tag   *)
(* store (GTG/core/tags2.py) and the datastore (GTG/core/datastore2.py).   *)
(*                                                                         *)
(* Identifiers (uuid4 values) are modelled as the naturals 1..MaxTasks and *)
(* 1..MaxTags; a fresh identifier is the smallest one not yet in lookup.   *)
(* A Python list is a sequence, a dict is the set of its keys plus one     *)
(* function per field of the objects it holds.                             *)
(***************************************************************************)
EXTENDS Integers, Sequences, FiniteSets, TLC

\* ---------------------------------------------------------------- bounds
\* Number of task identifiers that can be handed out.
MaxTasks == 3
\* Most list slots (entries of data plus entries of all children lists) the
\* model follows: the lists of the code are unbounded, and TaskStore.parent
\* can append the same item many times.
MaxHeld == 3
\* Concrete due dates are the days 1..MaxDate.
MaxDate == 3
\* Number of tag identifiers that can be handed out.
MaxTags == 2
\* Number of tasks created where tags are attached and detached.
MaxTaggedTasks == 2
\* A content text is made of at most MaxPieces pieces (see Pieces).
MaxPieces == 3
\* Number of times the stores change between saves (each change makes a new
\* document).
MaxEdits == 3

VARIABLES
    \* --- TaskStore (BaseStore fields) and the fields of each Task2
    data,         \* TaskStore.data: the top-level list
    lookup,       \* TaskStore.lookup: the keys of the dict
    children,     \* Task2.children, per task id
    parent,       \* Task2.parent, per task id (None when unset)
    status,       \* Task2.status
    date_closed,  \* Task2.date_closed
    date_due,     \* Task2._date_due
    tags,         \* Task2.tags: a list of tag ids
    content,      \* Task2.content: a text
    \* --- the last call made on the store and how it ended
    last,
    \* --- TagStore (BaseStore fields, lookup_names) and the fields of each Tag2
    tag_data,      \* TagStore.data
    tag_lookup,    \* TagStore.lookup: the keys of the dict
    tag_children,  \* Tag2.children, per tag id
    tag_name,      \* Tag2.name, per tag id
    lookup_names,  \* TagStore.lookup_names: name -> tag id (None when absent)
    \* --- the content of one task on its way through to_xml and from_xml
    text,          \* Task2.content before to_xml
    cdata,         \* the text of the <content> element
    decoded,       \* Task2.content after from_xml
    stage,         \* "raw", "encoded" or "decoded"
    \* --- the stores of a second Datastore2, filled by load_data / from_xml
    loaded,
    \* --- the data file, its siblings and the call working on them
    fs,            \* the content of every file the datastore names
    mem,           \* the document generate_xml would produce now
    pc,            \* the statement save_file has reached ("idle" outside it)
    started_good,  \* the primary file was a complete document when the
                   \* running (or last) save_file began
    before,        \* fs when write_backups was last entered
    load,          \* what find_and_load_file last did
    \* --- the flush thread of flush_all_tasks and the flag it polls
    please_quit,      \* Datastore2.please_quit
    flush_pc,         \* the statement the thread has reached ("idle": no thread)
    flush_size,       \* the size of lookup when the thread made its iterator
    flush_seen,       \* how many values the iterator has handed out
    flush_task,       \* the loop variable task_id
    queued,           \* the arguments of the queue_set_task calls, in order
    flush_snapshot,   \* lookup when flush_all_tasks was called
    calls_after_quit  \* queue_set_task calls made since please_quit was set

\* Python's None where an identifier is expected (identifiers start at 1).
None == 0
TaskIds == 1..MaxTasks
TagIds == 1..MaxTags

taskVars == <<data, lookup, children, parent, status, date_closed, date_due, tags,
              content>>
tagVars == <<tag_data, tag_lookup, tag_children, tag_name, lookup_names>>
\* Everything that is not a field of the task store or of a task.
textVars == <<text, cdata, decoded, stage>>
\* Everything outside the task store and the tag store.
fileVars == <<fs, mem, pc, started_good, before, load>>
flushVars == <<please_quit, flush_pc, flush_size, flush_seen, flush_task, queued,
               flush_snapshot, calls_after_quit>>
ioVars == <<textVars, loaded, fileVars, flushVars>>
nonTaskVars == <<tagVars, ioVars>>
vars == <<taskVars, last, nonTaskVars>>

\* ------------------------------------------------------- list primitives
\* list.remove(x): drops the first occurrence of x (the caller handles the
\* ValueError of an absent x).
RECURSIVE ListRemove(_, _)
ListRemove(s, x) ==
    IF s = <<>> THEN <<>>
    ELSE IF Head(s) = x THEN Tail(s)
    ELSE <<Head(s)>> \o ListRemove(Tail(s), x)

\* x in list
ListHas(s, x) == \E i \in 1..Len(s) : s[i] = x

\* Number of occurrences of x in a list.
ListCount(s, x) == Cardinality({i \in 1..Len(s) : s[i] = x})

\* ------------------------------------------------------------------ Date
\* GTG.core.dates.Date: a concrete day, or a fuzzy marker. Dates compare by
\* the day they stand for: "now" is today, before every concrete day of the
\* model; "someday" and "no_date" come after every concrete day.
Today == 0
DateOn(n) == [kind |-> "date", day |-> n]
DateNow == [kind |-> "now", day |-> Today]
DateSomeday == [kind |-> "someday", day |-> MaxDate + 1]
DateNoDate == [kind |-> "no_date", day |-> MaxDate + 2]
Dates == {DateOn(n) : n \in 1..MaxDate} \cup {DateNow, DateSomeday, DateNoDate}

\* Date.is_fuzzy()
IsFuzzy(d) == d.kind # "date"
\* bool(date): false for the no-date value only
Truthy(d) == d.kind # "no_date"
\* date < other, date > other
DateLT(a, b) == a.day < b.day
DateGT(a, b) == a.day > b.day

\* Entries of data plus entries of all children lists.
RECURSIVE SumLen(_, _)
SumLen(f, S) ==
    IF S = {} THEN 0
    ELSE LET x == CHOOSE y \in S : TRUE IN Len(f[x]) + SumLen(f, S \ {x})

Held == Len(data) + SumLen(children, TaskIds)

\* ------------------------------------------------------------ Task2.__init__
\* The store before any call: BaseStore.__init__ leaves data and lookup empty.
\* The per-task functions hold the values Task2.__init__ assigns, so that a
\* task created later starts from them.
TaskStoreInit ==
    /\ data = <<>>
    /\ lookup = {}
    /\ children = [t \in TaskIds |-> <<>>]
    /\ parent = [t \in TaskIds |-> None]
    /\ status = [t \in TaskIds |-> "Active"]
    /\ date_closed = [t \in TaskIds |-> "no_date"]
    /\ date_due = [t \in TaskIds |-> DateNoDate]
    /\ tags = [t \in TaskIds |-> <<>>]
    /\ content = [t \in TaskIds |-> <<>>]

\* uuid4(): an identifier no entity of the store has.
FreshTask == CHOOSE t \in TaskIds : t \notin lookup /\ \A u \in TaskIds : u \notin lookup => t <= u

\* ------------------------------------------------------------ TaskStore.new
\* new(title): the task becomes a root.
New ==
    /\ lookup # TaskIds
    /\ Held < MaxHeld
    /\ LET tid == FreshTask IN
        /\ data' = Append(data, tid)
        /\ lookup' = lookup \cup {tid}
        /\ last' = [op |-> "new", item |-> tid, arg |-> None, result |-> "ok"]
    /\ UNCHANGED <<children, parent, status, date_closed, date_due, tags, content>>
    /\ UNCHANGED nonTaskVars

\* BaseStore.add(item, parent_id) with a parent: the item is inserted into
\* lookup and appended to the parent's children, with its back-reference set;
\* it is not appended to data. An unknown parent fails with KeyError and
\* leaves the store as it was.
Add(tid, parent_id) ==
    IF parent_id \in lookup
    THEN /\ lookup' = lookup \cup {tid}
         /\ children' = [children EXCEPT ![parent_id] = Append(@, tid)]
         /\ parent' = [parent EXCEPT ![tid] = parent_id]
         /\ last' = [op |-> "new", item |-> tid, arg |-> parent_id, result |-> "ok"]
    ELSE /\ UNCHANGED <<lookup, children, parent>>
         /\ last' = [op |-> "new", item |-> tid, arg |-> parent_id, result |-> "KeyError"]

\* new(title, parent): the task is added under the parent.
NewChild(parent_id) ==
    /\ lookup # TaskIds
    /\ Held < MaxHeld
    /\ Add(FreshTask, parent_id)
    /\ UNCHANGED <<data, status, date_closed, date_due, tags, content>>
    /\ UNCHANGED nonTaskVars

\* A root entity: held by data, once, with no parent back-reference.
IsRoot(t) == ListCount(data, t) = 1 /\ parent[t] = None

\* --------------------------------------------------------- TaskStore.parent
\* parent(item_id, parent_id). An unknown item raises before anything
\* changes. The item is removed from data when it is there (a non-root item
\* stays in its former parent's children), then appended to the children of
\* parent_id; an unknown parent_id raises after the removal from data. The
\* record of a successful call notes whether the item was a root before it.
Parent(item_id, parent_id) ==
    /\ Held < MaxHeld \/ ListHas(data, item_id)
    /\ IF item_id \notin lookup
       THEN /\ UNCHANGED <<data, children, parent>>
            /\ last' = [op |-> "parent", item |-> item_id, arg |-> parent_id,
                        result |-> "KeyError"]
       ELSE /\ data' = ListRemove(data, item_id)
            /\ IF parent_id \in lookup
               THEN /\ children' = [children EXCEPT ![parent_id] = Append(@, item_id)]
                    /\ parent' = [parent EXCEPT ![item_id] = parent_id]
                    /\ last' = [op |-> "parent", item |-> item_id, arg |-> parent_id,
                                result |-> "ok", root |-> IsRoot(item_id)]
               ELSE /\ UNCHANGED <<children, parent>>
                    /\ last' = [op |-> "parent", item |-> item_id, arg |-> parent_id,
                                result |-> "KeyError"]
    /\ UNCHANGED <<lookup, status, date_closed, date_due, tags, content>>
    /\ UNCHANGED nonTaskVars

\* ------------------------------------------------------- TaskStore.unparent
\* unparent(item_id, parent_id): the first child of parent_id whose id is
\* item_id loses its back-reference, is appended to data and removed from the
\* children list; KeyError when parent_id is unknown or has no such child.
Unparent(item_id, parent_id) ==
    /\ IF parent_id \in lookup /\ ListHas(children[parent_id], item_id)
       THEN /\ parent' = [parent EXCEPT ![item_id] = None]
            /\ data' = Append(data, item_id)
            /\ children' = [children EXCEPT ![parent_id] = ListRemove(@, item_id)]
            /\ last' = [op |-> "unparent", item |-> item_id, arg |-> parent_id,
                        result |-> "ok"]
       ELSE /\ UNCHANGED <<data, children, parent>>
            /\ last' = [op |-> "unparent", item |-> item_id, arg |-> parent_id,
                        result |-> "KeyError"]
    /\ UNCHANGED <<lookup, status, date_closed, date_due, tags, content>>
    /\ UNCHANGED nonTaskVars

NoCall == [op |-> "init", item |-> None, arg |-> None, result |-> "ok"]

\* ------------------------------------------------------------------------
\* The task store under new / parent / unparent.
\* ----------------------------------------------------------------- tag names
\* A name is a sequence of characters.
Str(c) == <<c>>
\* The names given to TagStore.new.
NameInputs == {Str("a"), Str("b"), <<"@", "a">>}
\* The names a tag can have.
TagNames == {Str("a"), Str("b")}

\* TagStore.__init__ and Tag2.__init__.
TagStoreInit ==
    /\ tag_data = <<>>
    /\ tag_lookup = {}
    /\ tag_children = [g \in TagIds |-> <<>>]
    /\ tag_name = [g \in TagIds |-> <<>>]
    /\ lookup_names = [n \in TagNames |-> None]

\* ------------------------------------------------------------------ files
\* Class attribute of Datastore2: amount of backups to keep.
BACKUPS_NUMBER == 7

\* A path is a sequence of parts: the directory, then the parts of the file
\* name. Two paths are the same string exactly when they are the same
\* sequence of parts.
Primary == <<"dir/", "gtg_data.xml">>

\* str(i) for the numbers written into file names.
Digits == <<"0", "1", "2", "3", "4", "5", "6", "7", "8", "9">>
IntStr(i) == Digits[i + 1]

\* path + '__'
TempOf(path) == path \o <<"__">>

\* Datastore2.get_backup_name(path, i): i is None (0 here is a number, so the
\* absent argument is NoIndex) or a number; "if i" is false for None and 0.
NoIndex == -1
get_backup_name(path, i) ==
    LET dirname == path[1]
        filename == path[2]
        backup_file == IF i # NoIndex /\ i # 0
                       THEN <<filename, ".bak.", IntStr(i)>>
                       ELSE <<filename>>
    IN <<dirname, "backup/">> \o backup_file

\* The names write_backups gives the numbered generations:
\* f"{backup_name}.bak.{k}" on backup_name = get_backup_name(path).
GenerationName(path, k) == get_backup_name(path, NoIndex) \o <<".bak.", IntStr(k)>>

\* Every file the datastore names for the primary path.
AllFiles ==
    {Primary, TempOf(Primary)}
    \cup {get_backup_name(Primary, i) : i \in 0..BACKUPS_NUMBER}
    \cup {GenerationName(Primary, k) : k \in 0..BACKUPS_NUMBER}

\* The content of a file: missing, an incomplete document (the write did not
\* finish) or the complete document number doc.
Missing == [kind |-> "missing", doc |-> 0]
Partial(d) == [kind |-> "partial", doc |-> d]
Complete(d) == [kind |-> "complete", doc |-> d]
IsComplete(c) == c.kind = "complete"
\* os.path.exists
Exists(c) == c.kind # "missing"

NotLoadedFile == [from |-> <<>>, doc |-> 0, backup_info |-> <<>>]

\* No file is there and no call is running.
FilesIdle ==
    /\ fs = [f \in AllFiles |-> Missing]
    /\ mem = 0
    /\ pc = "idle"
    /\ started_good = FALSE
    /\ before = [f \in AllFiles |-> Missing]
    /\ load = NotLoadedFile

\* No content is on its way through the codec.
TextIdle ==
    /\ text = <<>>
    /\ cdata = <<>>
    /\ decoded = <<>>
    /\ stage = "raw"

\* Datastore2.__init__: please_quit is False; no flush thread has been started.
FlushIdle ==
    /\ please_quit = FALSE
    /\ flush_pc = "idle"
    /\ flush_size = 0
    /\ flush_seen = 0
    /\ flush_task = None
    /\ queued = <<>>
    /\ flush_snapshot = {}
    /\ calls_after_quit = 0

\* The stores of a new Datastore2 (TaskStore(), TagStore()), nothing loaded.
EmptyStores ==
    [via |-> "none", result |-> "none",
     tag_data |-> <<>>, tag_lookup |-> {},
     tag_children |-> [g \in TagIds |-> <<>>],
     tag_name |-> [g \in TagIds |-> <<>>],
     lookup_names |-> [n \in TagNames |-> None],
     data |-> <<>>, lookup |-> {},
     children |-> [t \in TaskIds |-> <<>>],
     parent |-> [t \in TaskIds |-> None],
     status |-> [t \in TaskIds |-> "Active"],
     tags |-> [t \in TaskIds |-> <<>>]]

Init ==
    /\ TaskStoreInit
    /\ last = NoCall
    /\ TagStoreInit
    /\ TextIdle
    /\ loaded = EmptyStores
    /\ FilesIdle
    /\ FlushIdle

Next ==
    \/ New
    \/ \E p \in TaskIds : NewChild(p)
    \/ \E x \in TaskIds, p \in TaskIds : Parent(x, p)
    \/ \E x \in TaskIds, p \in TaskIds : Unparent(x, p)

Spec == Init /\ [][Next]_vars

\* Number of containers (data, or one children list) entity t is held in,
\* counting every occurrence.
Places(t) ==
    ListCount(data, t)
    + Cardinality({<<p, i>> \in TaskIds \X (1..MaxHeld) :
                      i <= Len(children[p]) /\ children[p][i] = t})

\* C1: after any sequence of new / parent / unparent calls every entity of
\* lookup is held in exactly one place (data, or one children list), once.
C1_TreeInvariant == \A t \in lookup : Places(t) = 1

\* ------------------------------------------------------------------------
\* Task2.toggle_status and Task2.dismiss. The recursive calls mutate the
\* tasks in place, one after the other; the operators below thread the
\* fields they write (st.status, st.closed) through the same sequence of
\* calls, children in list order.

\* Every task below t through the children lists (t excluded unless the
\* links loop back to it).
RECURSIVE Reach(_, _)
Reach(S, n) ==
    IF n = 0 THEN S
    ELSE Reach(S \cup {children[p][i] : <<p, i>> \in
                          {q \in S \X (1..MaxHeld) : q[2] <= Len(children[q[1]])}}, n - 1)

Descendants(t) == Reach({children[t][i] : i \in 1..Len(children[t])}, MaxTasks)

\* The recursive cascades return only where the children links do not loop.
Acyclic == \A t \in TaskIds : t \notin Descendants(t)

RECURSIVE toggle_status(_, _, _)
RECURSIVE ToggleChildren(_, _, _)

\* The call on the parent made with the default, propagate=True.
ParentPropagateAll == TRUE

\* The argument of the call made on the parent:
\* self.parent.toggle_status(propagate=False).
ParentPropagate == FALSE

\* toggle_status(propagate) on task t, from fields st.
toggle_status(st, t, propagate) ==
    LET own ==
            IF st.status[t] = "Active"
            THEN [status |-> [st.status EXCEPT ![t] = "Done"],
                  closed |-> [st.closed EXCEPT ![t] = "today"]]
            ELSE LET act == [status |-> [st.status EXCEPT ![t] = "Active"],
                             closed |-> [st.closed EXCEPT ![t] = "no_date"]]
                 IN IF parent[t] # None /\ act.status[parent[t]] # "Active"
                    THEN toggle_status(act, parent[t], ParentPropagate)
                    ELSE act
    IN IF propagate THEN ToggleChildren(own, t, 1) ELSE own

\* for child in self.children: child.toggle_status(), from the i-th child on.
ToggleChildren(st, t, i) ==
    IF i > Len(children[t]) THEN st
    ELSE ToggleChildren(toggle_status(st, children[t][i], TRUE), t, i + 1)

\* dismiss() on task t: t and every task below it become Dismissed.
dismiss(st, t) ==
    [st EXCEPT !.status = [u \in TaskIds |->
                              IF u = t \/ u \in Descendants(t) THEN "Dismissed" ELSE @[u]]]

ToggleStatus(t, propagate) ==
    /\ t \in lookup
    /\ LET st == toggle_status([status |-> status, closed |-> date_closed], t, propagate) IN
        /\ status' = st.status
        /\ date_closed' = st.closed
    /\ last' = [op |-> "toggle_status", item |-> t, arg |-> status[t],
                result |-> IF propagate THEN "propagate" ELSE "single",
                above |-> IF parent[t] = None THEN "none" ELSE status[parent[t]]]
    /\ UNCHANGED <<data, lookup, children, parent, date_due, tags, content>>
    /\ UNCHANGED nonTaskVars

Dismiss(t) ==
    /\ t \in lookup
    /\ LET st == dismiss([status |-> status, closed |-> date_closed], t) IN
        /\ status' = st.status
        /\ date_closed' = st.closed
    /\ last' = [op |-> "dismiss", item |-> t, arg |-> status[t], result |-> "ok"]
    /\ UNCHANGED <<data, lookup, children, parent, date_due, tags, content>>
    /\ UNCHANGED nonTaskVars

\* The task store under new, toggle_status and dismiss: the hierarchies are
\* the ones new(title, parent) builds.
NextStatus ==
    \/ New
    \/ \E p \in TaskIds : NewChild(p)
    \/ \E t \in TaskIds, propagate \in BOOLEAN : ToggleStatus(t, propagate)
    \/ \E t \in TaskIds : Dismiss(t)

SpecStatus == Init /\ [][NextStatus]_vars

\* C2: after toggle_status(propagate=True) on T, T and every descendant of T
\* are all Done when T was Active before the call, all Active when T was Done.
C2_StatusCascade ==
    (last.op = "toggle_status" /\ last.result = "propagate"
        /\ last.arg \in {"Active", "Done"})
    => \A u \in {last.item} \cup Descendants(last.item) :
          status[u] = (IF last.arg = "Active" THEN "Done" ELSE "Active")

\* C3: a Dismissed task is never brought back to Active by a call.
C3_DismissedTerminal ==
    [][\A t \in TaskIds : status[t] = "Dismissed" => status'[t] # "Active"]_vars

\* ------------------------------------------------------------------------
\* Task2.due_date (setter). due is the _date_due of every task; the calls
\* the setter makes on children and on the parent run the setter again.
RECURSIVE due_date(_, _, _)
RECURSIVE ClampChildren(_, _, _, _)

due_date(due, t, value) ==
    LET own == [due EXCEPT ![t] = value] IN
    IF ~Truthy(value) \/ IsFuzzy(value) THEN own
    ELSE LET below == ClampChildren(own, t, value, 1) IN
         IF /\ parent[t] # None
            /\ Truthy(below[parent[t]])
            /\ IsFuzzy(below[parent[t]])
            /\ DateLT(below[parent[t]], value)
         THEN due_date(below, parent[t], value)
         ELSE below

\* for child in self.children: the clamp of a concrete, later due date, from
\* the i-th child on.
ClampChildren(due, t, value, i) ==
    IF i > Len(children[t]) THEN due
    ELSE LET child == children[t][i] IN
         ClampChildren(IF /\ Truthy(due[child])
                          /\ ~IsFuzzy(due[child])
                          /\ DateGT(due[child], value)
                       THEN due_date(due, child, value)
                       ELSE due,
                       t, value, i + 1)

SetDueDate(t, value) ==
    /\ t \in lookup
    /\ date_due' = due_date(date_due, t, value)
    /\ last' = [op |-> "due_date", item |-> t, arg |-> value.day, result |-> value.kind]
    /\ UNCHANGED <<data, lookup, children, parent, status, date_closed, tags, content>>
    /\ UNCHANGED nonTaskVars

\* The task store under new and due-date assignments.
NextDue ==
    \/ New
    \/ \E p \in TaskIds : NewChild(p)
    \/ \E t \in TaskIds, value \in Dates : SetDueDate(t, value)

SpecDue == Init /\ [][NextDue]_vars

\* C4: no child has a concrete due date later than the concrete due date of
\* its parent, after any sequence of due-date assignments.
C4_DueClamp ==
    \A c \in lookup :
        (parent[c] # None /\ ~IsFuzzy(date_due[c]) /\ ~IsFuzzy(date_due[parent[c]]))
        => ~DateGT(date_due[c], date_due[parent[c]])

\* ------------------------------------------------------------------------
\* TagStore.new
FreshTag == CHOOSE g \in TagIds : g \notin tag_lookup /\ \A h \in TagIds : h \notin tag_lookup => g <= h

\* name if not name.startswith('@') else name[1:]
StripAt(name) == IF name # <<>> /\ Head(name) = "@" THEN Tail(name) ELSE name

\* self.lookup[name]: lookup is keyed by identifier, and a name is never an
\* identifier, so the subscript raises KeyError for every name.
LookupHasName(name) == FALSE

\* new(name) without a parent: when the lookup by name fails, a tag with a
\* fresh identifier is appended to data and inserted into lookup (not into
\* lookup_names).
TagNew(raw) ==
    /\ tag_lookup # TagIds
    /\ ~LookupHasName(StripAt(raw))
    /\ LET tid == FreshTag IN
        /\ tag_data' = Append(tag_data, tid)
        /\ tag_lookup' = tag_lookup \cup {tid}
        /\ tag_name' = [tag_name EXCEPT ![tid] = StripAt(raw)]
        /\ last' = [op |-> "tag_new", item |-> tid, arg |-> None, result |-> "ok"]
    /\ UNCHANGED <<tag_children, lookup_names>>
    /\ UNCHANGED <<taskVars, ioVars>>

\* ------------------------------------------------------------------------
\* Task2.add_tag and Task2.remove_tag. tg is the tags list of every task.
RECURSIVE add_tag(_, _, _)
RECURSIVE AddTagChildren(_, _, _, _)

\* add_tag(tag) on task t: appended when absent, and only then passed on to
\* the children.
add_tag(tg, t, tag) ==
    IF ~ListHas(tg[t], tag)
    THEN AddTagChildren([tg EXCEPT ![t] = Append(@, tag)], t, tag, 1)
    ELSE tg

AddTagChildren(tg, t, tag, i) ==
    IF i > Len(children[t]) THEN tg
    ELSE AddTagChildren(add_tag(tg, children[t][i], tag), t, tag, i + 1)

\* for t in self.tags: if t.name == tag_name: self.tags.remove(t)
\* The loop reads position i of the list it is removing from, so the element
\* that moves into a freed position is not visited.
RECURSIVE RemoveNamed(_, _, _)
RemoveNamed(l, name, i) ==
    IF i > Len(l) THEN l
    ELSE IF tag_name[l[i]] = name
         THEN RemoveNamed(ListRemove(l, l[i]), name, i + 1)
         ELSE RemoveNamed(l, name, i + 1)

RECURSIVE remove_tag(_, _, _)
RECURSIVE RemoveTagChildren(_, _, _, _)

\* remove_tag(tag_name) on task t, then on each child.
remove_tag(tg, t, name) ==
    RemoveTagChildren([tg EXCEPT ![t] = RemoveNamed(@, name, 1)], t, name, 1)

RemoveTagChildren(tg, t, name, i) ==
    IF i > Len(children[t]) THEN tg
    ELSE RemoveTagChildren(remove_tag(tg, children[t][i], name), t, name, i + 1)

AddTag(t, tag) ==
    /\ t \in lookup
    /\ tag \in tag_lookup
    /\ tags' = add_tag(tags, t, tag)
    /\ last' = [op |-> "add_tag", item |-> t, arg |-> tag,
                result |-> IF ListHas(tags[t], tag) THEN "present" ELSE "absent"]
    /\ UNCHANGED <<data, lookup, children, parent, status, date_closed, date_due,
                   content>>
    /\ UNCHANGED nonTaskVars

\* remove_tag recurses through the children lists; it returns only when they
\* do not loop back (no task below t is t or its own descendant). The three
\* chained str.replace calls build a new text which the statement drops:
\* self.content is not assigned, so every content stays as it is.
RemoveTag(t, name) ==
    /\ t \in lookup
    /\ \A u \in {t} \cup Descendants(t) : u \notin Descendants(u)
    /\ tags' = remove_tag(tags, t, name)
    /\ last' = [op |-> "remove_tag", item |-> t, arg |-> None, result |-> "ok",
                name |-> name]
    /\ UNCHANGED <<data, lookup, children, parent, status, date_closed, date_due,
                   content>>
    /\ UNCHANGED nonTaskVars

\* The task store under new / parent / unparent and tag attach / detach, on
\* the first MaxTaggedTasks task identifiers.
TaggedIds == 1..MaxTaggedTasks

NextTags ==
    \/ \E raw \in NameInputs : TagNew(raw)
    \/ Cardinality(lookup) < MaxTaggedTasks /\ New
    \/ \E p \in TaggedIds : Cardinality(lookup) < MaxTaggedTasks /\ NewChild(p)
    \/ \E x \in TaggedIds, p \in TaggedIds : Parent(x, p)
    \/ \E x \in TaggedIds, p \in TaggedIds : Unparent(x, p)
    \/ \E t \in TaggedIds, tag \in TagIds : AddTag(t, tag)
    \/ \E t \in TaggedIds, name \in TagNames : RemoveTag(t, name)

SpecTags == Init /\ [][NextTags]_vars

\* C5: every tag attached to a task is attached to every descendant of it.
C5_TagInheritance ==
    \A t \in lookup : \A u \in Descendants(t) :
        \A i \in 1..Len(tags[t]) : ListHas(tags[u], tags[t][i])

\* ------------------------------------------------------------------------
\* The content of a task through TaskStore.to_xml and TaskStore.from_xml.
\* A text is a sequence of characters.

\* str.replace(old, new): every occurrence, left to right, without overlap.
RECURSIVE Replace(_, _, _)
Replace(s, old, new) ==
    IF Len(s) < Len(old) THEN s
    ELSE IF SubSeq(s, 1, Len(old)) = old
         THEN new \o Replace(SubSeq(s, Len(old) + 1, Len(s)), old, new)
         ELSE <<Head(s)>> \o Replace(Tail(s), old, new)

CdataEnd == <<"]", "]", ">">>
CdataEndEscaped == <<"]", "]", "&", "g", "t", ";">>

\* text.replace(']]>', ']]&gt;') in to_xml
EncodeContent(s) == Replace(s, CdataEnd, CdataEndEscaped)
\* content.replace(']]&gt;', ']]>') in from_xml
DecodeContent(s) == Replace(s, CdataEndEscaped, CdataEnd)

\* The texts of the model: up to MaxPieces pieces, each the CDATA terminator,
\* its escaped form, or a fragment of them.
Pieces == {CdataEnd, CdataEndEscaped, <<"a">>, <<"]">>, <<"&", "g", "t", ";">>}

RECURSIVE TextsOf(_)
TextsOf(n) ==
    IF n = 0 THEN {<<>>}
    ELSE LET shorter == TextsOf(n - 1) IN
         shorter \cup {t \o q : t \in shorter, q \in Pieces}

Texts == TextsOf(MaxPieces)

\* to_xml writes the content of the task into the document.
ContentToXml ==
    /\ stage = "raw"
    /\ cdata' = EncodeContent(text)
    /\ stage' = "encoded"
    /\ UNCHANGED <<text, decoded, last, taskVars, tagVars, loaded, fileVars, flushVars>>

\* from_xml reads it back.
ContentFromXml ==
    /\ stage = "encoded"
    /\ decoded' = DecodeContent(cdata)
    /\ stage' = "decoded"
    /\ UNCHANGED <<text, cdata, last, taskVars, tagVars, loaded, fileVars, flushVars>>

InitContent ==
    /\ TaskStoreInit
    /\ last = NoCall
    /\ TagStoreInit
    /\ text \in Texts
    /\ cdata = <<>>
    /\ decoded = <<>>
    /\ stage = "raw"
    /\ loaded = EmptyStores
    /\ FilesIdle
    /\ FlushIdle

NextContent ==
    \/ ContentToXml
    \/ ContentFromXml

SpecContent == InitContent /\ [][NextContent]_vars

\* C6: decoding the encoded content yields the original text, for every text.
C6_ContentRoundTrip == stage = "decoded" => decoded = text

\* ------------------------------------------------------------------------
\* The XML codec. A document is a sequence of sections, each an element with
\* a tag name and a list of child elements; an identifier is written as its
\* string form and read back as that string, which stands for the same
\* identifier.

\* The values of a dict in insertion order; identifiers are handed out in
\* increasing order, so this is the increasing order of the keys.
RECURSIVE Values(_)
Values(S) ==
    IF S = {} THEN <<>>
    ELSE LET x == CHOOSE y \in S : \A z \in S : y <= z IN <<x>> \o Values(S \ {x})

\* str(id) as an attribute value: a text that is not a tag name.
IdStr(id) == <<"#", id>>

\* TagStore.to_xml: parent_map is filled from the children of the tags of
\* data, a later entry replacing an earlier one.
ParentMap(g) ==
    LET holders == {i \in 1..Len(tag_data) : ListHas(tag_children[tag_data[i]], g)} IN
    IF holders = {} THEN None
    ELSE tag_data[CHOOSE i \in holders : \A j \in holders : j <= i]

TagElement(g) == [id |-> g, name |-> tag_name[g], parent |-> ParentMap(g)]

TagToXml ==
    LET order == Values(tag_lookup) IN
    [tag |-> "SavedSearches", elements |-> [i \in 1..Len(order) |-> TagElement(order[i])]]

\* TaskStore.to_xml
TaskElement(t) == [id |-> t, status |-> status[t], tags |-> tags[t], subs |-> children[t]]

TaskToXml ==
    LET order == Values(lookup) IN
    [tag |-> "Tasklist", elements |-> [i \in 1..Len(order) |-> TaskElement(order[i])]]

\* Datastore2.generate_xml: the sections of the tag store and of the task
\* store under the root (the section of the saved searches is left out).
GenerateXml == <<TagToXml, TaskToXml>>

\* ElementTree.find(name): the first child of the root with that tag name.
NoElement == [tag |-> "None", elements |-> <<>>]
Find(doc, name) ==
    LET hits == {i \in 1..Len(doc) : doc[i].tag = name} IN
    IF hits = {} THEN NoElement
    ELSE doc[CHOOSE i \in hits : \A j \in hits : i <= j]

\* BaseStore.add(item) without a parent, as TagStore.add extends it: the tag
\* becomes a root and is entered into lookup_names.
TagAdd(st, e) ==
    [st EXCEPT !.tag_data = Append(@, e.id),
               !.tag_lookup = @ \cup {e.id},
               !.tag_name = [@ EXCEPT ![e.id] = e.name],
               !.lookup_names = [n \in TagNames |-> IF n = e.name THEN e.id ELSE @[n]]]

\* BaseStore.parent(item_id, parent_id) on the tag store: the item leaves the
\* container it is in and is appended to the children of the parent.
TagReparent(st, item_id, parent_id) ==
    [st EXCEPT !.tag_data = ListRemove(@, item_id),
               !.tag_children = [g \in TagIds |->
                    IF g = parent_id THEN Append(ListRemove(@[g], item_id), item_id)
                    ELSE ListRemove(@[g], item_id)]]

\* TagStore.find(name): lookup_names[name], KeyError (None here) when absent.
TagFind(st, name) == IF name \in TagNames THEN st.lookup_names[name] ELSE None

\* First pass of TagStore.from_xml: every tag is created and added as a root.
RECURSIVE TagPassOne(_, _, _)
TagPassOne(st, els, i) ==
    IF i > Len(els) THEN st ELSE TagPassOne(TagAdd(st, els[i]), els, i + 1)

\* Second pass: the parent attribute is looked up as a tag name.
RECURSIVE TagPassTwo(_, _, _)
TagPassTwo(st, els, i) ==
    IF i > Len(els) THEN st
    ELSE IF els[i].parent = None THEN TagPassTwo(st, els, i + 1)
    ELSE LET found == TagFind(st, IdStr(els[i].parent)) IN
         IF found = None THEN [st EXCEPT !.result = "KeyError"]
         ELSE TagPassTwo(TagReparent(st, els[i].id, found), els, i + 1)

\* TagStore.from_xml(xml); xml.iter fails on None.
TagFromXml(st, xml) ==
    IF xml = NoElement THEN [st EXCEPT !.result = "AttributeError"]
    ELSE TagPassTwo(TagPassOne(st, xml.elements, 1), xml.elements, 1)

\* The tags of a task element: tag_store.get(t.text), an unknown id skipped.
RECURSIVE KnownTags(_, _)
KnownTags(st, l) ==
    IF l = <<>> THEN <<>>
    ELSE IF Head(l) \in st.tag_lookup THEN <<Head(l)>> \o KnownTags(st, Tail(l))
    ELSE KnownTags(st, Tail(l))

\* The status attribute as from_xml reads it.
StatusOf(attr) ==
    IF attr = "Done" THEN "Done" ELSE IF attr = "Dismissed" THEN "Dismissed" ELSE "Active"

\* First pass of TaskStore.from_xml: every task is created and added as a root.
RECURSIVE TaskPassOne(_, _, _)
TaskPassOne(st, els, i) ==
    IF i > Len(els) THEN st
    ELSE LET e == els[i] IN
         TaskPassOne([st EXCEPT !.data = Append(@, e.id),
                                !.lookup = @ \cup {e.id},
                                !.status = [@ EXCEPT ![e.id] = StatusOf(e.status)],
                                !.tags = [@ EXCEPT ![e.id] = KnownTags(st, e.tags)]],
                     els, i + 1)

\* TaskStore.parent(item_id, parent_id) on the stores being loaded.
LoadedParent(st, item_id, parent_id) ==
    IF item_id \notin st.lookup THEN [st EXCEPT !.result = "KeyError"]
    ELSE IF parent_id \notin st.lookup
         THEN [st EXCEPT !.data = ListRemove(@, item_id), !.result = "KeyError"]
         ELSE [st EXCEPT !.data = ListRemove(@, item_id),
                         !.children = [@ EXCEPT ![parent_id] = Append(@, item_id)],
                         !.parent = [@ EXCEPT ![item_id] = parent_id]]

\* Second pass: the subtasks of element i, from the j-th on, then the next
\* elements.
RECURSIVE TaskPassTwo(_, _, _, _)
TaskPassTwo(st, els, i, j) ==
    IF st.result = "KeyError" \/ i > Len(els) THEN st
    ELSE IF j > Len(els[i].subs) THEN TaskPassTwo(st, els, i + 1, 1)
    ELSE TaskPassTwo(LoadedParent(st, els[i].subs[j], els[i].id), els, i, j + 1)

\* TaskStore.from_xml(xml, tag_store)
TaskFromXml(st, xml) ==
    IF xml = NoElement THEN [st EXCEPT !.result = "AttributeError"]
    ELSE TaskPassTwo(TaskPassOne(st, xml.elements, 1), xml.elements, 1, 1)

\* Datastore2.load_data(data): the sections are looked up by name; the task
\* section is read when reading the tag section did not raise.
LoadData(doc) ==
    LET start == [EmptyStores EXCEPT !.via = "load_data", !.result = "ok"]
        withTags == TagFromXml(start, Find(doc, "taglist"))
    IN IF withTags.result # "ok" THEN withTags
       ELSE TaskFromXml(withTags, Find(doc, "tasklist"))

\* The same two decoders handed the elements the two encoders return.
LoadSections ==
    LET start == [EmptyStores EXCEPT !.via = "from_xml", !.result = "ok"]
        withTags == TagFromXml(start, TagToXml)
    IN IF withTags.result # "ok" THEN withTags
       ELSE TaskFromXml(withTags, TaskToXml)

\* BaseStore.add(item, parent_id) as TagStore.add extends it: the tag goes
\* under the parent and is entered into lookup_names.
TagNewChild(raw, parent_id) ==
    /\ tag_lookup # TagIds
    /\ parent_id \in tag_lookup
    /\ ~LookupHasName(StripAt(raw))
    /\ LET tid == FreshTag IN
        /\ tag_lookup' = tag_lookup \cup {tid}
        /\ tag_children' = [tag_children EXCEPT ![parent_id] = Append(@, tid)]
        /\ tag_name' = [tag_name EXCEPT ![tid] = StripAt(raw)]
        /\ lookup_names' = [lookup_names EXCEPT ![StripAt(raw)] = tid]
        /\ last' = [op |-> "tag_new", item |-> tid, arg |-> parent_id, result |-> "ok"]
    /\ UNCHANGED tag_data
    /\ UNCHANGED <<taskVars, ioVars>>

\* generate_xml on this datastore, load_data of the document on a new one.
SaveAndLoad ==
    /\ loaded' = LoadData(GenerateXml)
    /\ UNCHANGED <<taskVars, last, tagVars, textVars, fileVars, flushVars>>

\* to_xml of both stores, from_xml of the two elements on new stores.
EncodeAndDecode ==
    /\ loaded' = LoadSections
    /\ UNCHANGED <<taskVars, last, tagVars, textVars, fileVars, flushVars>>

\* The stores are filled, then written and read back.
Filling == loaded.via = "none"

NextXml ==
    \/ \E raw \in NameInputs : Filling /\ TagNew(raw)
    \/ \E raw \in NameInputs, g \in TagIds : Filling /\ TagNewChild(raw, g)
    \/ Filling /\ Cardinality(lookup) < MaxTaggedTasks /\ New
    \/ \E p \in TaskIds : Filling /\ Cardinality(lookup) < MaxTaggedTasks /\ NewChild(p)
    \/ \E t \in TaskIds, tag \in TagIds : Filling /\ AddTag(t, tag)
    \/ SaveAndLoad
    \/ EncodeAndDecode

SpecXml == Init /\ [][NextXml]_vars

\* The loaded stores hold the tags and tasks of this datastore with the same
\* parent/child links and the same tag references.
SameStores ==
    /\ loaded.tag_lookup = tag_lookup
    /\ loaded.tag_name = tag_name
    /\ loaded.tag_children = tag_children
    /\ loaded.lookup = lookup
    /\ loaded.children = children
    /\ loaded.parent = parent
    /\ loaded.tags = tags

\* C7: load_data of the document generate_xml produces reconstructs the same
\* tags and tasks with the same links.
C7_StructuralRoundTrip == loaded.via = "load_data" => SameStores

\* ------------------------------------------------------------------------
\* Datastore2.save_file(path), statement by statement, so that the files can
\* be looked at between any two of them (a crash leaves them as they are at
\* that point). The path is Primary.
nonFileVars == <<taskVars, tagVars, textVars, loaded, flushVars>>

\* A change of the stores between two saves: generate_xml now gives another
\* document.
Edit ==
    /\ pc = "idle"
    /\ mem < MaxEdits
    /\ mem' = mem + 1
    /\ UNCHANGED <<fs, pc, started_good, before, load, last, nonFileVars>>

\* if os.path.exists(path): os.rename(path, temp_file); then generate_xml.
SaveRename ==
    /\ pc = "idle"
    /\ started_good' = IsComplete(fs[Primary])
    /\ fs' = IF Exists(fs[Primary])
             THEN [fs EXCEPT ![TempOf(Primary)] = fs[Primary], ![Primary] = Missing]
             ELSE fs
    /\ pc' = "renamed"
    /\ last' = [op |-> "save_file", item |-> None, arg |-> None, result |-> "running"]
    /\ UNCHANGED <<mem, before, load, nonFileVars>>

\* open(path, 'wb') succeeds: the file is there, with nothing in it yet.
SaveOpen ==
    /\ pc = "renamed"
    /\ fs' = [fs EXCEPT ![Primary] = Partial(mem)]
    /\ pc' = "opened"
    /\ UNCHANGED <<mem, started_good, before, load, last, nonFileVars>>

\* open(path, 'wb') raises IOError or FileNotFoundError: no file is made.
SaveOpenFails ==
    /\ pc = "renamed"
    /\ pc' = "except"
    /\ UNCHANGED <<fs, mem, started_good, before, load, last, nonFileVars>>

\* tree.write(stream, ...) completes and the with block closes the file.
SaveWrite ==
    /\ pc = "opened"
    /\ fs' = [fs EXCEPT ![Primary] = Complete(mem)]
    /\ pc' = "written"
    /\ UNCHANGED <<mem, started_good, before, load, last, nonFileVars>>

\* tree.write raises IOError part of the way: an incomplete file is left.
SaveWriteFails ==
    /\ pc = "opened"
    /\ pc' = "except"
    /\ UNCHANGED <<fs, mem, started_good, before, load, last, nonFileVars>>

\* The except block with filepath bound: it runs to its end and save_file
\* goes on to the removal of the temp file.
ExceptBlockReturns == "continue"

\* The except block: log.error, then os.path.dirname(filepath). No name
\* filepath is bound in save_file or in the module, so the statement raises
\* NameError and save_file is left through that exception. "raise" is that
\* outcome; "continue" would be the block running to its end.
ExceptBlock == "raise"

SaveExcept ==
    /\ pc = "except"
    /\ IF ExceptBlock = "raise"
       THEN /\ pc' = "idle"
            /\ last' = [op |-> "save_file", item |-> None, arg |-> None,
                        result |-> "NameError"]
       ELSE /\ pc' = "written"
            /\ last' = [op |-> "save_file", item |-> None, arg |-> None,
                        result |-> "write failed"]
    /\ UNCHANGED <<fs, mem, started_good, before, load, nonFileVars>>

\* if os.path.exists(temp_file): os.remove(temp_file)
SaveRemoveTemp ==
    /\ pc = "written"
    /\ fs' = [fs EXCEPT ![TempOf(Primary)] = Missing]
    /\ pc' = "backups"
    /\ UNCHANGED <<mem, started_good, before, load, last, nonFileVars>>

\* Datastore2.write_backups(path), the last statement of save_file. Its first
\* statement reads self.BACKUPS; Datastore2 has the attribute BACKUPS_NUMBER
\* and no attribute BACKUPS, so the read raises AttributeError: no file is
\* moved or copied, and save_file is left through the exception.
WriteBackups ==
    /\ pc = "backups"
    /\ before' = fs
    /\ pc' = "idle"
    /\ last' = [op |-> "write_backups", item |-> None, arg |-> None,
                result |-> "AttributeError"]
    /\ UNCHANGED <<fs, mem, started_good, load, nonFileVars>>

\* Datastore2.find_and_load_file(path). Its first statement builds the list
\* of candidates from xml_path; no name xml_path is bound in the method or in
\* the module, so the statement raises NameError before any file is opened.
FindAndLoadFile ==
    /\ pc = "idle"
    /\ load' = NotLoadedFile
    /\ last' = [op |-> "find_and_load_file", item |-> None, arg |-> None,
                result |-> "NameError"]
    /\ UNCHANGED <<fs, mem, pc, started_good, before, nonFileVars>>

\* The data file is missing (first run) or holds the document of the stores.
InitFiles ==
    /\ TaskStoreInit
    /\ last = NoCall
    /\ TagStoreInit
    /\ TextIdle
    /\ loaded = EmptyStores
    /\ fs \in {[f \in AllFiles |-> IF f = Primary THEN c ELSE Missing] :
                  c \in {Missing, Complete(0)}}
    /\ mem = 0
    /\ pc = "idle"
    /\ started_good = FALSE
    /\ before = [f \in AllFiles |-> Missing]
    /\ load = NotLoadedFile
    /\ FlushIdle

NextFiles ==
    \/ Edit
    \/ SaveRename
    \/ SaveOpen
    \/ SaveOpenFails
    \/ SaveWrite
    \/ SaveWriteFails
    \/ SaveExcept
    \/ SaveRemoveTemp
    \/ WriteBackups
    \/ FindAndLoadFile

SpecFiles == InitFiles /\ [][NextFiles]_vars

\* C8: from the rename on, through the write, a failed write and the removal
\* of the temp file, the primary file or its temp sibling is a complete
\* document, when the primary file was one as save_file began.
C8_CrashTolerance ==
    started_good => (IsComplete(fs[Primary]) \/ IsComplete(fs[TempOf(Primary)]))

\* A save that began on a complete file and whose write failed: the incomplete
\* new file is there, and so is the renamed original.
C8_Witness ==
    /\ started_good
    /\ last.op = "save_file" /\ last.result = "NameError"
    /\ fs[Primary].kind = "partial"
    /\ IsComplete(fs[TempOf(Primary)])

\* C9: when write_backups has run, generation 0 is a copy of the file just
\* saved, every generation that existed has moved up by one, and no
\* generation beyond BACKUPS_NUMBER - 1 exists.
C9_BackupRotation ==
    last.op = "write_backups" =>
        /\ fs[GenerationName(Primary, 0)] = fs[Primary]
        /\ \A k \in 0..(BACKUPS_NUMBER - 2) :
              Exists(before[GenerationName(Primary, k)])
              => fs[GenerationName(Primary, k + 1)] = before[GenerationName(Primary, k)]
        /\ ~Exists(fs[GenerationName(Primary, BACKUPS_NUMBER)])

\* The candidates in the order of the claim: the primary file, its temp
\* sibling, then the generations under the names write_backups gives them.
Candidates ==
    <<Primary, TempOf(Primary)>>
    \o [k \in 1..BACKUPS_NUMBER |-> GenerationName(Primary, k - 1)]

Parses(f) == IsComplete(fs[f])

\* C10: find_and_load_file loads the first candidate that parses, and reports
\* a backup recovery when that candidate is not the primary file.
C10_ResolutionFallback ==
    (last.op = "find_and_load_file" /\ \E i \in 1..Len(Candidates) : Parses(Candidates[i]))
    => LET first == CHOOSE i \in 1..Len(Candidates) :
                       /\ Parses(Candidates[i])
                       /\ \A j \in 1..(i - 1) : ~Parses(Candidates[j])
       IN /\ load.from = Candidates[first]
          /\ load.doc = fs[Candidates[first]].doc
          /\ (first > 1 => load.backup_info = Candidates[first])

\* ------------------------------------------------------------------------
\* The tag store on its own: new (with and without a parent), add and find.

\* add(Tag2(id=uuid4(), name=name), parent_id): BaseStore.add inserts the
\* tag into lookup and appends it to data (no parent) or to the children of
\* the parent (KeyError when the parent is unknown); TagStore.add then enters
\* it into lookup_names under its name, as given (add strips nothing).
TagStoreAdd(name, parent_id) ==
    /\ tag_lookup # TagIds
    /\ LET tid == FreshTag IN
        IF parent_id = None \/ parent_id \in tag_lookup
        THEN /\ tag_lookup' = tag_lookup \cup {tid}
             /\ tag_name' = [tag_name EXCEPT ![tid] = name]
             /\ lookup_names' = [lookup_names EXCEPT ![name] = tid]
             /\ IF parent_id = None
                THEN /\ tag_data' = Append(tag_data, tid)
                     /\ UNCHANGED tag_children
                ELSE /\ tag_children' = [tag_children EXCEPT ![parent_id] = Append(@, tid)]
                     /\ UNCHANGED tag_data
             /\ last' = [op |-> "tag_add", item |-> tid, arg |-> parent_id,
                         result |-> "ok"]
        ELSE /\ UNCHANGED tagVars
             /\ last' = [op |-> "tag_add", item |-> tid, arg |-> parent_id,
                         result |-> "KeyError"]
    /\ UNCHANGED <<taskVars, ioVars>>

\* find(name): lookup_names[name]; the store is left as it is.
TagStoreFind(name) ==
    /\ last' = [op |-> "tag_find", item |-> lookup_names[name], arg |-> None,
                name |-> name,
                result |-> IF lookup_names[name] = None THEN "KeyError" ELSE "ok"]
    /\ UNCHANGED <<taskVars, tagVars, ioVars>>

\* BaseStore.parent(item_id, parent_id), which TagStore inherits: the tag
\* leaves the container it is in and is appended to the children of the
\* parent; KeyError, with nothing changed, when either id is unknown.
TagStoreParent(item_id, parent_id) ==
    /\ IF item_id \in tag_lookup /\ parent_id \in tag_lookup
       THEN /\ tag_data' = ListRemove(tag_data, item_id)
            /\ tag_children' = [g \in TagIds |->
                  IF g = parent_id
                  THEN Append(ListRemove(tag_children[g], item_id), item_id)
                  ELSE ListRemove(tag_children[g], item_id)]
            /\ last' = [op |-> "tag_parent", item |-> item_id, arg |-> parent_id,
                        result |-> "ok"]
       ELSE /\ UNCHANGED <<tag_data, tag_children>>
            /\ last' = [op |-> "tag_parent", item |-> item_id, arg |-> parent_id,
                        result |-> "KeyError"]
    /\ UNCHANGED <<tag_lookup, tag_name, lookup_names>>
    /\ UNCHANGED <<taskVars, ioVars>>

NextTagStore ==
    \/ \E raw \in NameInputs : TagNew(raw)
    \/ \E raw \in NameInputs, g \in TagIds : TagNewChild(raw, g)
    \/ \E name \in TagNames, g \in {None} \cup TagIds : TagStoreAdd(name, g)
    \/ \E g \in TagIds, h \in TagIds : TagStoreParent(g, h)
    \/ \E name \in TagNames : TagStoreFind(name)

SpecTagStore == Init /\ [][NextTagStore]_vars

\* C11: no two tags of the store have the same name (new returns the
\* existing tag of that normalized name instead of adding another).
C11_UniqueNames ==
    \A g \in tag_lookup, h \in tag_lookup : tag_name[g] = tag_name[h] => g = h

\* C12: every tag of lookup is the one find returns for its name, and find
\* answers only for names of tags of the store.
C12_IndexConsistency ==
    /\ \A g \in tag_lookup : lookup_names[tag_name[g]] = g
    /\ \A n \in TagNames :
          lookup_names[n] # None => \E g \in tag_lookup : tag_name[g] = n

\* ------------------------------------------------------------------------
\* TaskStore.parent and TaskStore.unparent as a pair.

\* The step is a call of parent(item_id, parent_id) that raised.
ParentFailed == last' # last /\ last'.op = "parent" /\ last'.result = "KeyError"

\* C13: parent fails with KeyError when either id is unknown, and a failed
\* call leaves data, lookup, the children lists and the back-references as
\* they were.
C13_FailedParentNoChange ==
    [][/\ (last' # last /\ last'.op = "parent"
            /\ (last'.item \notin lookup \/ last'.arg \notin lookup))
          => last'.result = "KeyError"
       /\ ParentFailed => UNCHANGED <<data, lookup, children, parent>>]_vars

\* The step is unparent(x, p) right after a successful parent(x, p) on a
\* root x.
UnparentAfterParent ==
    /\ last.op = "parent" /\ last.result = "ok" /\ last.root
    /\ last'.op = "unparent" /\ last'.item = last.item /\ last'.arg = last.arg

\* C14: parent(x, p) on a root x followed by unparent(x, p) leaves x a root
\* again and out of p.children, with lookup as it was; unparent(x, p) raises
\* KeyError when x is not in p.children.
C14_UnparentInverse ==
    [][/\ UnparentAfterParent =>
            /\ last'.result = "ok"
            /\ ListCount(data', last.item) = 1
            /\ parent'[last.item] = None
            /\ ~ListHas(children'[last.arg], last.item)
            /\ lookup' = lookup
       /\ (last' # last /\ last'.op = "unparent"
            /\ ~(last'.arg \in lookup /\ ListHas(children[last'.arg], last'.item)))
          => last'.result = "KeyError"]_vars

\* ------------------------------------------------------------------------
\* Tag attach and detach, call by call.

\* Task t carries a tag named name.
Carries(t, name) == \E i \in 1..Len(tags[t]) : tag_name[tags[t][i]] = name

\* C15: after add_tag(T) on X, whether or not X carried T before, X and every
\* descendant of X carry T exactly once.
C15_AttachCascades ==
    last.op = "add_tag" =>
        \A u \in {last.item} \cup Descendants(last.item) :
            ListCount(tags[u], last.arg) = 1

\* C16: after remove_tag(name) on X, neither X nor a descendant of X carries
\* a tag of that name, however many tags of that name X carried.
C16_DetachByName ==
    last.op = "remove_tag" =>
        \A u \in {last.item} \cup Descendants(last.item) : ~Carries(u, last.name)

\* task.content = value
SetContent(t, value) ==
    /\ t \in lookup
    /\ content' = [content EXCEPT ![t] = value]
    /\ last' = [op |-> "content", item |-> t, arg |-> None, result |-> "ok"]
    /\ UNCHANGED <<data, lookup, children, parent, status, date_closed, date_due, tags>>
    /\ UNCHANGED nonTaskVars

\* The contents given to tasks: a tag token followed by a comma, a tag token
\* followed by two newlines, a bare tag token after other text, no token.
ContentInputs ==
    {<<"a", ",">>, <<"b", "\n", "\n">>, <<"x", "a">>, <<"x">>}

\* token in text
Contains(s, token) ==
    \E i \in 1..(Len(s) - Len(token) + 1) : SubSeq(s, i, i + Len(token) - 1) = token

\* Tasks with contents and tags, in hierarchies built by new alone.
NextDetach ==
    \/ \E raw \in NameInputs : TagNew(raw)
    \/ Cardinality(lookup) < MaxTaggedTasks /\ New
    \/ \E p \in TaggedIds : Cardinality(lookup) < MaxTaggedTasks /\ NewChild(p)
    \/ \E t \in TaggedIds, value \in ContentInputs : SetContent(t, value)
    \/ \E t \in TaggedIds, tag \in TagIds : AddTag(t, tag)
    \/ \E t \in TaggedIds, name \in TagNames : RemoveTag(t, name)

SpecDetach == Init /\ [][NextDetach]_vars

\* The step is remove_tag(name) on task t, which carries a tag of that name.
DetachStep(t, name) ==
    /\ last' # last
    /\ last'.op = "remove_tag" /\ last'.item = t /\ last'.name = name
    /\ Carries(t, name)

\* C17: after remove_tag(name) on a task that carries the tag, the content of
\* the task, and of every descendant that carried it, no longer contains the
\* tag token.
C17_DetachStripsContent ==
    [][\A t \in TaskIds, name \in TagNames :
          DetachStep(t, name) =>
              \A u \in {t} \cup Descendants(t) :
                  Carries(u, name) => ~Contains(content'[u], name)]_vars

\* ------------------------------------------------------------------------
\* TaskStore.filter(filter_type, arg)

\* The members of the enumeration Filter.
FilterTypes == {"Status", "Tag", "Parent", "Children"}

\* The elements of a list, as a set.
Range(l) == {l[i] : i \in 1..Len(l)}

\* [x for x in l if keep(x)]
RECURSIVE Comprehension(_, _)
Comprehension(l, keep) ==
    IF l = <<>> THEN <<>>
    ELSE IF Head(l) \in keep THEN <<Head(l)>> \o Comprehension(Tail(l), keep)
    ELSE Comprehension(Tail(l), keep)

\* The list names that filter_tag builds for task t: the names of its tags,
\* then the names of the children of each of its tags.
NamesOf(t) ==
    {tag_name[g] : g \in Range(tags[t])}
    \cup {tag_name[c] : c \in UNION {Range(tag_children[g]) : g \in Range(tags[t])}}

\* filter_tag(tag_name): the tasks of data with tag_name among their names.
filter_tag(name) == Comprehension(data, {t \in TaskIds : name \in NamesOf(t)})

\* for t in arg: output = list(set(output) & set(filter_tag(t))), output
\* starting as the empty list.
RECURSIVE filter_tags(_, _)
filter_tags(output, names) ==
    IF names = <<>> THEN output
    ELSE filter_tags(output \cap Range(filter_tag(Head(names))), Tail(names))

\* The outcome of a call: the list returned, or the exception raised.
Returned(l) == [result |-> "ok", out |-> l]
Raised(e) == [result |-> e, out |-> <<>>]

\* A set as a list (list(set)), in increasing order of the identifiers.
AsList(S) == Values(S)

\* filter(filter_type, arg). The chain of comparisons reaches
\* 'filter_type == Filter.ROOT' for every type but STATUS, and Filter has no
\* member ROOT: reading it raises AttributeError.
Filter(filter_type, arg) ==
    IF filter_type = "Status"
    THEN Returned(Comprehension(data, {t \in TaskIds : status[t] = arg}))
    ELSE IF "ROOT" \notin FilterTypes THEN Raised("AttributeError")
    ELSE IF filter_type = "Children"
    THEN Returned(Comprehension(Values(lookup), {t \in TaskIds : parent[t] # None}))
    ELSE IF filter_type = "Tag"
    THEN Returned(filter_tag(arg))
    ELSE Returned(<<>>)

\* type(arg) == list
FilterList(names) ==
    IF "ROOT" \notin FilterTypes THEN Raised("AttributeError")
    ELSE Returned(AsList(filter_tags({}, names)))

Statuses == {"Active", "Done", "Dismissed"}

\* filter(Filter.STATUS, s)
FilterStatus(s) ==
    /\ last' = [op |-> "filter", kind |-> "Status", item |-> None, arg |-> s,
                result |-> Filter("Status", s).result, out |-> Filter("Status", s).out]
    /\ UNCHANGED <<taskVars, nonTaskVars>>

\* filter(Filter.TAG, name)
FilterTag(name) ==
    /\ last' = [op |-> "filter", kind |-> "Tag", item |-> None, arg |-> name,
                result |-> Filter("Tag", name).result, out |-> Filter("Tag", name).out]
    /\ UNCHANGED <<taskVars, nonTaskVars>>

\* filter(Filter.TAG, [n1, ..., nk])
FilterTagList(names) ==
    /\ last' = [op |-> "filter", kind |-> "TagList", item |-> None, arg |-> names,
                result |-> FilterList(names).result, out |-> FilterList(names).out]
    /\ UNCHANGED <<taskVars, nonTaskVars>>

\* Tasks of every status, roots and nested, and the status filter.
NextFilterStatus ==
    \/ New
    \/ \E p \in TaskIds : NewChild(p)
    \/ \E t \in TaskIds, propagate \in BOOLEAN : ToggleStatus(t, propagate)
    \/ \E t \in TaskIds : Dismiss(t)
    \/ \E s \in Statuses : FilterStatus(s)

SpecFilterStatus == Init /\ [][NextFilterStatus]_vars

\* C18: filter(Status, s) returns exactly the tasks of lookup, roots and
\* nested ones, whose status is s.
C18_FilterStatusAll ==
    (last.op = "filter" /\ last.kind = "Status") =>
        /\ last.result = "ok"
        /\ Range(last.out) = {t \in lookup : status[t] = last.arg}

\* The lists of names given to the tag filter.
NameLists == {<<n>> : n \in TagNames} \cup {<<n, k>> : n \in TagNames, k \in TagNames}

\* Tagged tasks, a tag hierarchy, and the tag filter.
NextFilterTag ==
    \/ \E raw \in NameInputs : TagNew(raw)
    \/ \E raw \in NameInputs, g \in TagIds : TagNewChild(raw, g)
    \/ Cardinality(lookup) < MaxTaggedTasks /\ New
    \/ \E p \in TaggedIds : Cardinality(lookup) < MaxTaggedTasks /\ NewChild(p)
    \/ \E t \in TaggedIds, tag \in TagIds : AddTag(t, tag)
    \/ \E name \in TagNames : FilterTag(name)
    \/ \E names \in NameLists : FilterTagList(names)

SpecFilterTag == Init /\ [][NextFilterTag]_vars

\* The tasks to which the tag named name, or one of the registered children
\* of a tag named name, is attached.
TaggedWith(name) ==
    {t \in lookup : \E g \in Range(tags[t]) :
        \/ tag_name[g] = name
        \/ \E h \in tag_lookup : tag_name[h] = name /\ ListHas(tag_children[h], g)}

\* C19: filter(Tag, name) returns exactly the tasks carrying the tag named
\* name or one of its registered child-tags.
C19_FilterTagHierarchy ==
    (last.op = "filter" /\ last.kind = "Tag") =>
        /\ last.result = "ok"
        /\ Range(last.out) = TaggedWith(last.arg)

\* The tasks every one of the single-name filters returns.
RECURSIVE InEvery(_)
InEvery(names) ==
    IF Len(names) = 1 THEN Range(filter_tag(Head(names)))
    ELSE Range(filter_tag(Head(names))) \cap InEvery(Tail(names))

\* C20: filter(Tag, [n1, ..., nk]) returns the intersection of the results of
\* the single-name filters, and for one name what the single-name filter
\* returns.
C20_FilterTagList ==
    (last.op = "filter" /\ last.kind = "TagList") =>
        /\ last.result = "ok"
        /\ \A i \in 1..Len(last.arg) : Filter("Tag", last.arg[i]).result = "ok"
        /\ Range(last.out) = InEvery(last.arg)

\* ------------------------------------------------------------------------
\* C21: a write failure inside save_file is handled there: from the except
\* block the call goes on to the statements after it (it is not left through
\* an exception), and the stores in memory are as they were.
C21_WriteFailureContained ==
    [][pc = "except" =>
          /\ pc' = "written"
          /\ UNCHANGED <<taskVars, tagVars, mem>>]_vars

\* ------------------------------------------------------------------------
\* C23: after a due date is set to a concrete day, no task below it, at any
\* depth, has a concrete due date later than that day.
C23_DueClampEveryDepth ==
    (last.op = "due_date" /\ last.result = "date") =>
        \A u \in Descendants(last.item) :
            ~IsFuzzy(date_due[u]) => ~DateGT(date_due[u], DateOn(last.arg))

\* ------------------------------------------------------------------------
\* The ancestors of t through the parent back-references.
RECURSIVE Above(_, _)
Above(t, n) ==
    IF n = 0 \/ parent[t] = None THEN {}
    ELSE {parent[t]} \cup Above(parent[t], n - 1)

Ancestors(t) == Above(t, MaxTasks)

\* C27: no entity is its own ancestor, through the children lists or through
\* the parent back-references, after any sequence of new, parent and unparent
\* calls.
C27_AcyclicHierarchy ==
    \A t \in lookup : t \notin Descendants(t) /\ t \notin Ancestors(t)

\* ------------------------------------------------------------------------
\* Reactivation of the ancestors by Task2.toggle_status.

\* The consecutive ancestors of t that are not Active, from its parent up.
RECURSIVE Chain(_, _)
Chain(t, n) ==
    IF n = 0 \/ parent[t] = None THEN {}
    ELSE IF status[parent[t]] = "Active" THEN {}
    ELSE {parent[t]} \cup Chain(parent[t], n - 1)

\* The other tasks held by the container that holds t.
Siblings(t) ==
    (IF parent[t] = None THEN Range(data) ELSE Range(children[parent[t]])) \ {t}

\* The step is toggle_status on task t, which is Done.
Reactivates(t) ==
    /\ last'.op = "toggle_status" /\ last'.item = t /\ last'.arg = "Done"
    /\ t \in lookup /\ status[t] = "Done"

nonFlushVars == <<taskVars, last, tagVars, textVars, loaded, fileVars>>

\* flush_all_tasks(backend_id) on the primary thread: the thread is created
\* and started.
FlushAllTasks ==
    /\ flush_pc = "idle"
    /\ flush_pc' = "started"
    /\ flush_snapshot' = lookup
    /\ UNCHANGED <<please_quit, flush_size, flush_seen, flush_task, queued,
                   calls_after_quit>>
    /\ UNCHANGED nonFlushVars

\* backend = self.backends[backend_id]; the for statement makes the iterator
\* of self.tasks.lookup.values(), which remembers the size of the dict.
FlushIter ==
    /\ flush_pc = "started"
    /\ flush_size' = Cardinality(lookup)
    /\ flush_seen' = 0
    /\ flush_pc' = "next"
    /\ UNCHANGED <<please_quit, flush_task, queued, flush_snapshot, calls_after_quit>>
    /\ UNCHANGED nonFlushVars

\* The for statement asks the iterator for the next value: RuntimeError
\* (dictionary changed size during iteration) when the dict has another size
\* than at the start, the end of the loop when every value was handed out,
\* the next value in insertion order otherwise.
FlushNextValue ==
    /\ flush_pc = "next"
    /\ IF Cardinality(lookup) # flush_size
       THEN /\ flush_pc' = "error"
            /\ UNCHANGED <<flush_seen, flush_task>>
       ELSE IF flush_seen = flush_size
       THEN /\ flush_pc' = "done"
            /\ UNCHANGED <<flush_seen, flush_task>>
       ELSE /\ flush_task' = Values(lookup)[flush_seen + 1]
            /\ flush_seen' = flush_seen + 1
            /\ flush_pc' = "check"
    /\ UNCHANGED <<please_quit, flush_size, queued, flush_snapshot, calls_after_quit>>
    /\ UNCHANGED nonFlushVars

\* The flag read in the first iteration only.
PollsFirstIteration == FALSE

\* 'if self.please_quit: break' is the first statement of the loop body: the
\* flag is read in every iteration.
PollsEveryIteration == TRUE

FlushCheck ==
    /\ flush_pc = "check"
    /\ flush_pc' = IF (PollsEveryIteration \/ flush_seen = 1) /\ please_quit
                   THEN "done" ELSE "call"
    /\ UNCHANGED <<please_quit, flush_size, flush_seen, flush_task, queued,
                   flush_snapshot, calls_after_quit>>
    /\ UNCHANGED nonFlushVars

\* backend.queue_set_task(task_id)
FlushCall ==
    /\ flush_pc = "call"
    /\ queued' = Append(queued, flush_task)
    /\ calls_after_quit' = IF please_quit THEN calls_after_quit + 1 ELSE calls_after_quit
    /\ flush_pc' = "next"
    /\ UNCHANGED <<please_quit, flush_size, flush_seen, flush_task, flush_snapshot>>
    /\ UNCHANGED nonFlushVars

\* self.please_quit = True, on the primary thread.
SetQuit ==
    /\ ~please_quit
    /\ please_quit' = TRUE
    /\ calls_after_quit' = 0
    /\ UNCHANGED <<flush_pc, flush_size, flush_seen, flush_task, queued, flush_snapshot>>
    /\ UNCHANGED nonFlushVars

\* The steps of the flush thread.
FlushThread == FlushIter \/ FlushNextValue \/ FlushCheck \/ FlushCall

\* The primary thread creates tasks and sets the flag while the flush thread
\* runs. (The thread reads lookup and nothing else of the store; parent and
\* unparent leave lookup as it is.)
NextFlush ==
    \/ New
    \/ \E p \in TaskIds : NewChild(p)
    \/ FlushAllTasks
    \/ SetQuit
    \/ FlushThread

SpecFlush == Init /\ [][NextFlush]_vars

\* The thread is scheduled as long as it has a statement to run, and
\* queue_set_task returns.
SpecFlushFair == SpecFlush /\ WF_vars(FlushThread)

\* The thread is between the creation of its iterator and the end of its loop.
Traversing == flush_pc \in {"next", "check", "call"}

\* The thread has come to its end.
Terminated == flush_pc \in {"done", "error"}

\* C24: while the flush thread iterates lookup, no step changes the structure
\* of the task store.
C24_NoMutationDuringTraversal ==
    [][Traversing => UNCHANGED <<data, lookup, children, parent>>]_vars

\* C25: once please_quit is set, the thread makes at most one more
\* queue_set_task call (the one whose check had passed), and it terminates.
C25_CooperativeCancel ==
    /\ [](calls_after_quit <= 1)
    /\ (please_quit ~> flush_pc \in {"idle", "done", "error"})

\* The flag was set after a check had passed: that one call was made, the
\* next check ended the loop, tasks of lookup are left unflushed.
C25_Witness ==
    /\ please_quit
    /\ calls_after_quit = 1
    /\ flush_pc = "done"
    /\ Len(queued) < flush_size

\* C26: with please_quit false, a flush that has come to its end has called
\* queue_set_task exactly once for every task that was in lookup when
\* flush_all_tasks was called.
C26_FlushComplete ==
    (Terminated /\ ~please_quit) =>
        /\ flush_pc = "done"
        /\ \A t \in flush_snapshot : ListCount(queued, t) = 1

\* ------------------------------------------------------------------------
\* The bootstrap of find_and_load_file through first_run.

\* The document firstrun_tasks.generate() returns: a tag section and a task
\* section, here with one tag and a task with one subtask.
FirstRunDocument ==
    <<[tag |-> "taglist",
       elements |-> <<[id |-> 1, name |-> Str("a"), parent |-> None]>>],
      [tag |-> "tasklist",
       elements |-> <<[id |-> 1, status |-> "Active", tags |-> <<1>>, subs |-> <<2>>],
                      [id |-> 2, status |-> "Active", tags |-> <<>>, subs |-> <<>>]>>]>>

\* The identifiers of the elements of a section of a document.
IdsOf(doc, name) == {Find(doc, name).elements[i].id : i \in 1..Len(Find(doc, name).elements)}

\* Number of places (data, or a children list) that hold the loaded task t,
\* and the loaded tag g.
LoadedTaskPlaces(t) ==
    ListCount(loaded.data, t)
    + Cardinality({<<p, i>> \in TaskIds \X (1..MaxHeld) :
                      i <= Len(loaded.children[p]) /\ loaded.children[p][i] = t})

LoadedTagPlaces(g) ==
    ListCount(loaded.tag_data, g)
    + Cardinality({<<p, i>> \in TagIds \X (1..MaxHeld) :
                      i <= Len(loaded.tag_children[p]) /\ loaded.tag_children[p][i] = g})

\* C28: when no candidate file can be loaded, find_and_load_file returns with
\* the stores holding every task and tag of the first-run document exactly
\* once, and as many entities as the document has.
C28_BootstrapOnce ==
    (last.op = "find_and_load_file" /\ \A i \in 1..Len(Candidates) : ~Parses(Candidates[i]))
    => /\ last.result = "ok"
       /\ loaded.lookup = IdsOf(FirstRunDocument, "tasklist")
       /\ loaded.tag_lookup = IdsOf(FirstRunDocument, "taglist")
       /\ \A t \in loaded.lookup : LoadedTaskPlaces(t) = 1
       /\ \A g \in loaded.tag_lookup : LoadedTagPlaces(g) = 1


====
